---------------------------- MODULE Spec2Model ----------------------------
(***************************************************************************)
(* A model of lazy_ref::LazyRef<'a, T> (src/src/lib.rs): a cell holding    *)
(* one AtomicPtr<T> that is null (empty) or the address of a borrowed T.   *)
(*                                                                         *)
(* Every atomic access of the slot (load_consume, store(Release)) is one   *)
(* step of the calling thread; the steps of different threads interleave   *)
(* freely.  The &mut self / self methods (get_owned, set_owned,            *)
(* into_inner) can only be called while no other call on the cell is in    *)
(* progress: that is the borrow checker's exclusivity rule.                *)
(***************************************************************************)
EXTENDS Naturals, FiniteSets

\* ------------------------------------------------------------------ bounds
NThreads == 2
NRefs == 2
NCells == 2
NWorkers == 3

Threads == 1..NThreads
Main == 0
Workers == 1..NWorkers
Cells == 1..NCells

\* ------------------------------------------------------------------ values
\* std::ptr::null_mut(): the empty sentinel of the slot.
Null == 0
\* The addresses of the externally owned values a &'a T can point to.
Refs == 1..NRefs
\* The value of type T stored at an address (what PartialEq for &T compares).
Deref(a) == a % 2

\* Option<&'a T>, &'a T, bool, () and Self as returned values.
None == <<"None">>
Some(a) == <<"Some", a>>
Ref(a) == <<"ref", a>>
Bool(b) == <<"bool", b>>
Unit == <<"unit">>
CellVal(c) == <<"cell", c>>
Panicked == <<"panic">>
NoRet == <<"noret">>
NoRead == <<"noread">>

\* Option<&T> compared by the address of the reference.
OptEqByAddress(x, y) == x = y

\* std::ptr::from_ref(r).cast_mut(): the address a reference holds.
FromRef(a) == a
\* ptr.as_ref(): None for the null pointer, Some(&*ptr) otherwise.
AsRef(p) == IF p = Null THEN None ELSE Some(p)
\* Option::unwrap_or_else on the result of get(), as get_or_init uses it.
IsNone(o) == o = None
Unwrap(o) == o[2]
\* Option<&T> == Option<&T>: both None, or both Some with equal pointees.
OptEq(x, y) ==
    IF IsNone(x) \/ IsNone(y) THEN IsNone(x) /\ IsNone(y)
    ELSE Deref(Unwrap(x)) = Deref(Unwrap(y))

\* ------------------------------------------------------------------- state
VARIABLES
    ptr,        \* ptr[c]: the AtomicPtr<T> of cell c
    status,     \* status[c]: "unborn", "live" or "dead" (consumed by into_inner)
    pc,         \* pc[t]: where thread t is inside its current call
    op,         \* op[t]: the method thread t is executing or has last executed
    cell,       \* cell[t]: self of that call
    other,      \* other[t]: the right-hand side of eq
    r,          \* r[t]: the reference argument, or the result of the initializer
    loaded,     \* loaded[t]: what the call's own self.get() returned
    ret,        \* ret[t]: the value the call returned
    finv,       \* finv[t]: how often the call has invoked its initializer
    since,      \* since[t]: the writes to cell[t] executed after t's call returned
                \*   (0 none, 1 a store of get_or_init, 2 a set or set_owned), as
                \*   far as Tracked records them
    lastStore,  \* lastStore[c]: the pointer of the last store executed on the
                \*   slot by set, set_owned or get_or_init (Null: none yet)
    written     \* written[c]: every reference handed to the cell for storing

threadVars == <<pc, op, cell, other, r, loaded, ret, finv>>
cellVars == <<ptr, status>>
ghostVars == <<since, lastStore, written>>
vars == <<ptr, status, pc, op, cell, other, r, loaded, ret, finv,
          since, lastStore, written>>

Tids == DOMAIN pc

\* A thread that is not inside a call: it has not called yet, its call has
\* returned, or its call has unwound.
AtRest(t) == pc[t] \in {"idle", "done", "unwound"}
\* Some shared (&self) call on cell c is in progress.
InFlight(c) == \E t \in Tids : ~AtRest(t) /\ (cell[t] = c \/ other[t] = c)
Live(c) == status[c] = "live"
Unborn == {c \in Cells : status[c] = "unborn"}
\* Clones that have not yet constructed their result.
PendingClones == {t \in Tids : pc[t] \in {"clone", "clone_make"}}
\* The next cell to construct.
NextCell == CHOOSE c \in Unborn : \A d \in Unborn : c <= d
\* The model constructs at most NCells cells.
CanConstruct == Cardinality(Unborn) > Cardinality(PendingClones)

\* A store that takes effect on an empty slot only, as
\* compare_exchange(null, p) does.
StoreIfEmpty(c, p) == IF ptr[c] = Null THEN [ptr EXCEPT ![c] = p] ELSE ptr

\* AtomicPtr::load / load_consume and AtomicPtr::store on cell c's slot.
Load(c) == ptr[c]
Store(c, p) == [ptr EXCEPT ![c] = p]

\* The larger and the smaller of two numbers.
Max(a, b) == IF a >= b THEN a ELSE b
Min(a, b) == IF a <= b THEN a ELSE b

\* What is recorded of the writes that follow a returned call of method o:
\* for a set whether a get_or_init stored (1) or a set or set_owned wrote (2),
\* for a get or is_initialized whether anything was written (1).
Tracked(o) ==
    IF o = "set" THEN 2
    ELSE IF o \in {"get", "is_initialized"} THEN 1
    ELSE 0

\* Thread t's call is over, and cell c has been written meanwhile (k: 1 by a
\* store of get_or_init, 2 by set or set_owned; 0: not written).
Noted(t, c, k) ==
    since' = [u \in Tids |->
                IF u = t THEN 0
                ELSE IF pc[u] = "done" /\ cell[u] = c
                     THEN Min(Tracked(op[u]), Max(since[u], k))
                ELSE since[u]]

\* The record of a store of pointer p into cell c, of kind k, by thread t.
Wrote(t, c, k, p) ==
    /\ lastStore' = [lastStore EXCEPT ![c] = p]
    /\ written' = [written EXCEPT ![c] = @ \cup {p}]
    /\ Noted(t, c, k)

\* Thread t starts method o on cell c with right-hand side d and reference
\* argument v: the call's locals are fresh.
Begin(t, o, c, d, v) ==
    /\ op' = [op EXCEPT ![t] = o]
    /\ cell' = [cell EXCEPT ![t] = c]
    /\ other' = [other EXCEPT ![t] = d]
    /\ r' = [r EXCEPT ![t] = v]
    /\ loaded' = [loaded EXCEPT ![t] = NoRead]
    /\ finv' = [finv EXCEPT ![t] = 0]

\* Thread t moves to p; v is the value its call has returned (NoRet: none yet).
At(t, p, v) ==
    /\ pc' = [pc EXCEPT ![t] = p]
    /\ ret' = [ret EXCEPT ![t] = v]

\* Thread t's call returns v: the temporary holding self.get() is gone.
Return(t, v) ==
    /\ At(t, "done", v)
    /\ loaded' = [loaded EXCEPT ![t] = NoRead]

InitThreads(T) ==
    /\ pc = [t \in T |-> "idle"]
    /\ op = [t \in T |-> "none"]
    /\ cell = [t \in T |-> 0]
    /\ other = [t \in T |-> 0]
    /\ r = [t \in T |-> Null]
    /\ loaded = [t \in T |-> NoRead]
    /\ ret = [t \in T |-> NoRet]
    /\ finv = [t \in T |-> 0]
    /\ since = [t \in T |-> 0]

\* No cell has been constructed; every thread is about to make its first call.
Init ==
    /\ InitThreads(Threads)
    /\ ptr = [c \in Cells |-> Null]
    /\ status = [c \in Cells |-> "unborn"]
    /\ lastStore = [c \in Cells |-> Null]
    /\ written = [c \in Cells |-> {}]

\* ------------------------------------------------------------ construction
\* The pointer new() puts into the slot: AtomicPtr::new(std::ptr::null_mut()).
NewPtr == Null
\* new_initialized that drops its argument and builds an empty cell.
NewInitializedEmpty(v) == Null

\* The pointer new_initialized(v) puts into the slot.
NewInitializedPtr(v) == FromRef(v)

\* The next cell is built, holding pointer p.
Build(p) ==
    /\ ptr' = Store(NextCell, p)
    /\ status' = [status EXCEPT ![NextCell] = "live"]
    /\ written' = [written EXCEPT ![NextCell] = IF p = Null THEN {} ELSE {p}]
    /\ UNCHANGED lastStore

\* Thread t's constructor call, named o and given the reference v (Null:
\* none), returns the cell it built.
Construct(t, o, v, p) ==
    /\ AtRest(t) /\ CanConstruct
    /\ Begin(t, o, NextCell, 0, v)
    /\ At(t, "done", CellVal(NextCell))
    /\ Build(p)
    /\ Noted(t, 0, 0)

\* LazyRef::new().
New(t) == Construct(t, "new", Null, NewPtr)

\* Default::default(): Self::new().
Default(t) == Construct(t, "default", Null, NewPtr)

\* LazyRef::new_initialized(v).
NewInitialized(t, v) == Construct(t, "new_initialized", v, NewInitializedPtr(v))

\* ------------------------------------------------------------ shared reads
\* Thread t calls the &self method o on the live cell c.
Call(t, o, c, d, v, p) ==
    /\ AtRest(t) /\ Live(c)
    /\ Begin(t, o, c, d, v)
    /\ At(t, p, NoRet)
    /\ Noted(t, 0, 0)
    /\ UNCHANGED <<cellVars, lastStore, written>>

\* LazyRef::get: self.ptr.load_consume(), then ptr.as_ref().
Get(c) == AsRef(Load(c))

GetCall(t, c) == Call(t, "get", c, 0, Null, "get")

\* get that takes the reference out of the slot, as Option::take would:
\* swap(null) in place of the load.
GetLoadTake(t) ==
    /\ pc[t] = "get"
    /\ At(t, "done", Get(cell[t]))
    /\ ptr' = Store(cell[t], Null)
    /\ UNCHANGED <<status, ghostVars, op, cell, other, r, loaded, finv>>

GetLoad(t) ==
    /\ pc[t] = "get"
    /\ At(t, "done", Get(cell[t]))
    /\ UNCHANGED <<cellVars, ghostVars, op, cell, other, r, loaded, finv>>

\* is_initialized without its negation: self.ptr.load_consume().is_null().
IsInitializedNoNot(c) == Load(c) = Null

\* LazyRef::is_initialized: !self.ptr.load_consume().is_null().
IsInitialized(c) == ~(Load(c) = Null)

IsInitCall(t, c) == Call(t, "is_initialized", c, 0, Null, "is_init")

IsInitLoad(t) ==
    /\ pc[t] = "is_init"
    /\ At(t, "done", Bool(IsInitialized(cell[t])))
    /\ UNCHANGED <<cellVars, ghostVars, op, cell, other, r, loaded, finv>>

\* ------------------------------------------------------------------- set
SetCall(t, c, v) == Call(t, "set", c, 0, v, "set")

\* set that does not overwrite: it stores into an empty slot only.
SetStoreOnce(t) ==
    /\ pc[t] = "set"
    /\ ptr' = StoreIfEmpty(cell[t], FromRef(r[t]))
    /\ At(t, "done", Unit)
    /\ Wrote(t, cell[t], 2, FromRef(r[t]))
    /\ UNCHANGED <<status, op, cell, other, r, loaded, finv>>

\* set as a store that is not atomic: its two halves land apart, and the
\* slot is left with the high half of the old pointer and the low half of the new.
SetStoreTorn(t) ==
    /\ pc[t] = "set"
    /\ ptr' = Store(cell[t], (ptr[cell[t]] \div 2) * 2 + (FromRef(r[t]) % 2))
    /\ At(t, "done", Unit)
    /\ Wrote(t, cell[t], 2, FromRef(r[t]))
    /\ UNCHANGED <<status, op, cell, other, r, loaded, finv>>

\* LazyRef::set: self.ptr.store(from_ref(r).cast_mut(), Release), returning ().
SetStore(t) ==
    /\ pc[t] = "set"
    /\ ptr' = Store(cell[t], FromRef(r[t]))
    /\ At(t, "done", Unit)
    /\ Wrote(t, cell[t], 2, FromRef(r[t]))
    /\ UNCHANGED <<status, op, cell, other, r, loaded, finv>>

\* ------------------------------------------------------------ get_or_init
GoiCall(t, c) == Call(t, "get_or_init", c, 0, Null, "goi_load")

\* get_or_init that runs its closure whatever self.get() returned.
GoiLoadAlwaysInit(t) ==
    /\ pc[t] = "goi_load"
    /\ At(t, "goi_init", NoRet)
    /\ loaded' = [loaded EXCEPT ![t] = Get(cell[t])]
    /\ UNCHANGED <<cellVars, ghostVars, op, cell, other, r, finv>>

\* self.get().unwrap_or_else(..): the value is returned when there is one,
\* the closure runs otherwise.
GoiLoad(t) ==
    /\ pc[t] = "goi_load"
    /\ IF IsNone(Get(cell[t]))
       THEN /\ At(t, "goi_init", NoRet)
            /\ loaded' = [loaded EXCEPT ![t] = Get(cell[t])]
       ELSE Return(t, Ref(Unwrap(Get(cell[t]))))
    /\ UNCHANGED <<cellVars, ghostVars, op, cell, other, r, finv>>

\* get_or_init that calls its closure twice and keeps the second result.
GoiInitTwice(t, v) ==
    /\ pc[t] = "goi_init"
    /\ r' = [r EXCEPT ![t] = v]
    /\ finv' = [finv EXCEPT ![t] = @ + 2]
    /\ At(t, "goi_store", NoRet)
    /\ UNCHANGED <<cellVars, ghostVars, op, cell, other, loaded>>

\* let r = f(): the initializer returns the reference v.
GoiInit(t, v) ==
    /\ pc[t] = "goi_init"
    /\ r' = [r EXCEPT ![t] = v]
    /\ finv' = [finv EXCEPT ![t] = @ + 1]
    /\ At(t, "goi_store", NoRet)
    /\ UNCHANGED <<cellVars, ghostVars, op, cell, other, loaded>>

\* get_or_init that publishes a reference before its initializer has
\* returned: the store is made although the initializer panics.
GoiPanicStores(t) ==
    /\ pc[t] = "goi_init"
    /\ finv' = [finv EXCEPT ![t] = @ + 1]
    /\ At(t, "unwound", Panicked)
    /\ loaded' = [loaded EXCEPT ![t] = NoRead]
    /\ \E v \in Refs :
          /\ ptr' = Store(cell[t], FromRef(v))
          /\ Wrote(t, cell[t], 1, FromRef(v))
    /\ UNCHANGED <<status, op, cell, other, r>>

\* let r = f(): the initializer panics, and the call unwinds.
GoiPanic(t) ==
    /\ pc[t] = "goi_init"
    /\ finv' = [finv EXCEPT ![t] = @ + 1]
    /\ At(t, "unwound", Panicked)
    /\ loaded' = [loaded EXCEPT ![t] = NoRead]
    /\ UNCHANGED <<cellVars, ghostVars, op, cell, other, r>>

\* get_or_init publishing by compare-and-exchange: the store lands on an
\* empty slot only, and the call returns what the slot then holds.
GoiStoreFirstWins(t) ==
    /\ pc[t] = "goi_store"
    /\ ptr' = StoreIfEmpty(cell[t], FromRef(r[t]))
    /\ Return(t, Ref(IF ptr[cell[t]] = Null THEN r[t] ELSE ptr[cell[t]]))
    /\ IF ptr[cell[t]] = Null
       THEN Wrote(t, cell[t], 1, FromRef(r[t]))
       ELSE Noted(t, 0, 0) /\ UNCHANGED <<lastStore, written>>
    /\ UNCHANGED <<status, op, cell, other, r, finv>>

\* get_or_init publishing in a compare-and-exchange loop: when the slot is
\* no longer empty the call starts over from its load.
GoiStoreRetry(t) ==
    /\ pc[t] = "goi_store"
    /\ ptr' = StoreIfEmpty(cell[t], FromRef(r[t]))
    /\ IF ptr[cell[t]] = Null
       THEN Return(t, Ref(r[t])) /\ Wrote(t, cell[t], 1, FromRef(r[t]))
       ELSE /\ At(t, "goi_load", NoRet)
            /\ UNCHANGED <<loaded, ghostVars>>
    /\ UNCHANGED <<status, op, cell, other, r, finv>>

\* get_or_init without its store: the initializer's result is returned only.
GoiStoreSkipped(t) ==
    /\ pc[t] = "goi_store"
    /\ Return(t, Ref(r[t]))
    /\ Noted(t, 0, 0)
    /\ UNCHANGED <<cellVars, lastStore, written, op, cell, other, r, finv>>

\* self.ptr.store(from_ref(r).cast_mut(), Release); r
GoiStore(t) ==
    /\ pc[t] = "goi_store"
    /\ ptr' = Store(cell[t], FromRef(r[t]))
    /\ Return(t, Ref(r[t]))
    /\ Wrote(t, cell[t], 1, FromRef(r[t]))
    /\ UNCHANGED <<status, op, cell, other, r, finv>>

\* ------------------------------------------------- exclusive (&mut) access
\* Thread t calls the &mut self / self method o on cell c: no other call on
\* the cell can be in progress, and the method runs without interference.
Owned(t, o, c, v, res) ==
    /\ AtRest(t) /\ Live(c) /\ ~InFlight(c)
    /\ Begin(t, o, c, 0, v)
    /\ At(t, "done", res)

\* get_owned that forgets the reference: None whatever the slot holds.
GetOwnedNone(c) == None

\* LazyRef::get_owned: *self.ptr.get_mut(), then ptr.as_ref().
GetOwnedValue(c) == AsRef(ptr[c])

GetOwned(t, c) ==
    /\ Owned(t, "get_owned", c, Null, GetOwnedValue(c))
    /\ Noted(t, 0, 0)
    /\ UNCHANGED <<cellVars, lastStore, written>>

\* set_owned that resets the cell: the slot is given the null pointer.
SetOwnedClears(t, c, v) ==
    /\ Owned(t, "set_owned", c, v, Unit)
    /\ ptr' = [ptr EXCEPT ![c] = Null]
    /\ Wrote(t, c, 2, FromRef(v))
    /\ UNCHANGED status

\* LazyRef::set_owned: *self.ptr.get_mut() = from_ref(r).cast_mut().
SetOwned(t, c, v) ==
    /\ Owned(t, "set_owned", c, v, Unit)
    /\ ptr' = [ptr EXCEPT ![c] = FromRef(v)]
    /\ Wrote(t, c, 2, FromRef(v))
    /\ UNCHANGED status

\* LazyRef::into_inner: self.get_owned(); the cell is consumed.
IntoInner(t, c) ==
    /\ Owned(t, "into_inner", c, Null, GetOwnedValue(c))
    /\ status' = [status EXCEPT ![c] = "dead"]
    /\ Noted(t, 0, 0)
    /\ UNCHANGED <<ptr, lastStore, written>>

\* ------------------------------------------------------------------ clone
CloneCall(t, c) == CanConstruct /\ Call(t, "clone", c, 0, Null, "clone")

\* self.get()
CloneLoad(t) ==
    /\ pc[t] = "clone"
    /\ loaded' = [loaded EXCEPT ![t] = Get(cell[t])]
    /\ At(t, "clone_make", NoRet)
    /\ UNCHANGED <<cellVars, ghostVars, op, cell, other, r, finv>>

\* clone that never copies the reference: Self::default() in every case.
CloneMakeEmpty(t) ==
    /\ pc[t] = "clone_make"
    /\ Return(t, CellVal(NextCell))
    /\ Build(NewPtr)
    /\ UNCHANGED <<op, cell, other, r, finv, since>>

\* .map(Self::new_initialized).unwrap_or_default()
CloneMake(t) ==
    /\ pc[t] = "clone_make"
    /\ Return(t, CellVal(NextCell))
    /\ IF IsNone(loaded[t])
       THEN Build(NewPtr)
       ELSE Build(NewInitializedPtr(Unwrap(loaded[t])))
    /\ UNCHANGED <<op, cell, other, r, finv, since>>

\* --------------------------------------------------------------------- eq
EqCall(t, c, d) == Live(d) /\ Call(t, "eq", c, d, Null, "eq_self")

\* self.get()
EqLoadSelf(t) ==
    /\ pc[t] = "eq_self"
    /\ loaded' = [loaded EXCEPT ![t] = Get(cell[t])]
    /\ At(t, "eq_other", NoRet)
    /\ UNCHANGED <<cellVars, ghostVars, op, cell, other, r, finv>>

\* == other.get()
EqLoadOther(t) ==
    /\ pc[t] = "eq_other"
    /\ Return(t, Bool(OptEq(loaded[t], Get(other[t]))))
    /\ UNCHANGED <<cellVars, ghostVars, op, cell, other, r, finv>>

\* ---------------------------------------------------------- specification
\* The next step of thread t inside the call it is executing.
Step(t) ==
    \/ GetLoad(t)
    \/ IsInitLoad(t)
    \/ SetStore(t)
    \/ GoiLoad(t)
    \/ \E v \in Refs : GoiInit(t, v)
    \/ GoiPanic(t)
    \/ GoiStore(t)
    \/ CloneLoad(t)
    \/ CloneMake(t)
    \/ EqLoadSelf(t)
    \/ EqLoadOther(t)

\* Thread t starts a call (the constructors and the exclusive methods run
\* to completion at once).
Invoke(t) ==
    \/ New(t)
    \/ Default(t)
    \/ \E v \in Refs : NewInitialized(t, v)
    \/ \E c \in Cells : GetCall(t, c)
    \/ \E c \in Cells : IsInitCall(t, c)
    \/ \E c \in Cells, v \in Refs : SetCall(t, c, v)
    \/ \E c \in Cells : GoiCall(t, c)
    \/ \E c \in Cells : GetOwned(t, c)
    \/ \E c \in Cells, v \in Refs : SetOwned(t, c, v)
    \/ \E c \in Cells : IntoInner(t, c)
    \/ \E c \in Cells : CloneCall(t, c)
    \/ \E c, d \in Cells : EqCall(t, c, d)

Next == \E t \in Threads : Invoke(t) \/ Step(t)

Spec == Init /\ [][Next]_vars

\* --------------------------------------------------- one shared cell
\* The cell every thread of SpecShared and SpecRace holds a handle to.
Shared == 1

\* The state in which cell c has been constructed holding pointer p and
\* shared with the threads T, none of which has called anything yet.
Constructed(T, c, p) ==
    /\ InitThreads(T)
    /\ ptr = [d \in Cells |-> IF d = c THEN p ELSE Null]
    /\ status = [d \in Cells |-> IF d = c THEN "live" ELSE "unborn"]
    /\ lastStore = [d \in Cells |-> Null]
    /\ written = [d \in Cells |-> IF d = c /\ p # Null THEN {p} ELSE {}]

\* The shared cell comes from new() or from new_initialized(v).
InitShared ==
    \E p \in {NewPtr} \cup {NewInitializedPtr(v) : v \in Refs} :
        Constructed(Threads, Shared, p)

\* The calls on the shared cell: the methods that read or write its slot.
InvokeShared(t) ==
    \/ GetCall(t, Shared)
    \/ IsInitCall(t, Shared)
    \/ \E v \in Refs : SetCall(t, Shared, v)
    \/ GoiCall(t, Shared)
    \/ GetOwned(t, Shared)
    \/ \E v \in Refs : SetOwned(t, Shared, v)

StepShared(t) ==
    \/ GetLoad(t)
    \/ IsInitLoad(t)
    \/ SetStore(t)
    \/ GoiLoad(t)
    \/ \E v \in Refs : GoiInit(t, v)
    \/ GoiPanic(t)
    \/ GoiStore(t)

NextShared == \E t \in Threads : InvokeShared(t) \/ StepShared(t)

SpecShared == InitShared /\ [][NextShared]_vars

\* ------------------------------------------- the race of the doc-test
\* let lazy_ref = LazyRef::new(); thread_ids.par_iter().for_each(|id| ..)
InitRace == Constructed({Main} \cup Workers, Shared, NewPtr)

\* The reference worker t's closure returns: id, a reference into thread_ids.
Candidate(t) == t

\* let r = lazy_ref.get_or_init(|| id): each worker calls once.
RaceCall(t) == pc[t] = "idle" /\ GoiCall(t, Shared)

\* The for_each has returned: every worker's call is over.
Joined == \A t \in Workers : pc[t] = "done"

\* let x = lazy_ref.get().unwrap(), after the for_each.
MainGet == pc[Main] = "idle" /\ Joined /\ GetCall(Main, Shared)

NextRace ==
    \/ \E t \in Workers :
        \/ RaceCall(t)
        \/ GoiLoad(t)
        \/ GoiInit(t, Candidate(t))
        \/ GoiStore(t)
    \/ MainGet
    \/ GetLoad(Main)

SpecRace == InitRace /\ [][NextRace]_vars

\* ------------------------------------------------- two cells under ==
\* The references the compared cells are given: with Deref, 1 and 3 are
\* distinct addresses whose pointees are equal, 2 has another pointee.
NEqRefs == 3
EqRefs == 1..NEqRefs

\* a == b: the cell on the left and the cell on the right of the comparison.
Lhs == 1
Rhs == 2

\* Both cells have been constructed, each by new() or new_initialized(v), and
\* are shared with the threads.
InitEq ==
    /\ InitThreads(Threads)
    /\ \E p, q \in {NewPtr} \cup {NewInitializedPtr(v) : v \in EqRefs} :
          /\ ptr = [d \in Cells |-> IF d = Lhs THEN p ELSE IF d = Rhs THEN q ELSE Null]
          /\ written = [d \in Cells |-> IF d = Lhs /\ p # Null THEN {p}
                                        ELSE IF d = Rhs /\ q # Null THEN {q}
                                        ELSE {}]
    /\ status = [d \in Cells |-> IF d \in {Lhs, Rhs} THEN "live" ELSE "unborn"]
    /\ lastStore = [d \in Cells |-> Null]

\* A thread compares two of the cells (one with itself too) or sets one.
InvokeEq(t) ==
    \/ \E c, d \in {Lhs, Rhs} : EqCall(t, c, d)
    \/ \E c \in {Lhs, Rhs} : \E v \in EqRefs : SetCall(t, c, v)

StepEq(t) ==
    \/ EqLoadSelf(t)
    \/ EqLoadOther(t)
    \/ SetStore(t)

NextEq == \E t \in Threads : InvokeEq(t) \/ StepEq(t)

SpecEq == InitEq /\ [][NextEq]_vars

\* ------------------------------- get_or_init calls that do not overlap
\* The shared cell is built empty; each worker makes at most one call on it.
InitSeq == Constructed(Workers, Shared, NewPtr)

\* Some get_or_init call is in progress.
GoiBusy == \E u \in Tids : op[u] = "get_or_init" /\ ~AtRest(u)

\* A worker calls get_or_init while no other get_or_init call is in progress.
SeqGoi(t) == pc[t] = "idle" /\ ~GoiBusy /\ GoiCall(t, Shared)

\* A worker calls set(v), at any time.
SeqSet(t, v) == pc[t] = "idle" /\ SetCall(t, Shared, v)

NextSeq ==
    \E t \in Workers :
        \/ SeqGoi(t)
        \/ \E v \in Refs : SeqSet(t, v)
        \/ GoiLoad(t)
        \/ \E v \in Refs : GoiInit(t, v)
        \/ GoiPanic(t)
        \/ GoiStore(t)
        \/ SetStore(t)

SpecSeq == InitSeq /\ [][NextSeq]_vars

\* The number of initializer invocations on cell c, each thread having made
\* at most one call; and the number of calls whose initializer panicked.
Invocations(c) == Cardinality({t \in Tids : cell[t] = c /\ finv[t] >= 1})
Panics(c) == Cardinality({t \in Tids : cell[t] = c /\ pc[t] = "unwound"})

\* No set has been called on cell c, and a get_or_init call on it has returned.
OnlyGoi(c) ==
    /\ \A t \in Tids : op[t] # "set"
    /\ \E t \in Tids : pc[t] = "done" /\ op[t] = "get_or_init" /\ cell[t] = c

\* ------------------------------------------------------------- properties
\* C1: when each worker calls get_or_init once on the shared empty cell with
\* an initializer returning its own candidate, every worker's call returns one
\* of the candidates, and the get() after all calls have returned gives Some
\* of exactly one candidate.
C1_RaceResult ==
    /\ \A t \in Workers :
          pc[t] = "done" => \E u \in Workers : ret[t] = Ref(Candidate(u))
    /\ pc[Main] = "done" =>
          Cardinality({u \in Workers : ret[Main] = Some(Candidate(u))}) = 1

\* All calls are over, the final get() has returned, and two initializers ran.
C1_Witness ==
    /\ pc[Main] = "done"
    /\ \E t, u \in Workers : t # u /\ finv[t] = 1 /\ finv[u] = 1

\* C2: the slot of every cell is the empty sentinel or one reference handed
\* to that cell for storing, and so is every value get() or get_or_init()
\* has returned: never a mix of two written values.
C2_NoTearing ==
    /\ \A c \in Cells : ptr[c] = Null \/ ptr[c] \in written[c]
    /\ \A t \in Tids :
          /\ pc[t] = "done" /\ op[t] = "get" =>
                \/ ret[t] = None
                \/ \E v \in written[cell[t]] : ret[t] = Some(v)
          /\ pc[t] = "done" /\ op[t] = "get_or_init" =>
                \E v \in written[cell[t]] : ret[t] = Ref(v)

\* A cell that was handed two references, one of which a get() returned.
C2_Witness ==
    \E t \in Tids :
        /\ pc[t] = "done" /\ op[t] = "get" /\ ret[t] # None
        /\ Cardinality(written[cell[t]]) >= 2

\* C3: a get_or_init whose load finds the slot empty runs its initializer,
\* returns the initializer's v and leaves get() == Some(v); one whose load
\* finds v0 returns v0 without invoking the initializer and leaves v0 in place.
C3_GetOrInit ==
    /\ [](\A t \in Tids :
            /\ pc[t] \in {"goi_init", "goi_store"} => loaded[t] = None
            /\ pc[t] = "done" /\ op[t] = "get_or_init" =>
                  finv[t] = (IF ret[t] = Ref(r[t]) THEN 1 ELSE 0))
    /\ [][\A t \in Tids :
            /\ pc[t] = "goi_load" /\ pc'[t] # "goi_load" =>
                  IF Load(cell[t]) = Null
                  THEN pc'[t] = "goi_init" /\ finv'[t] = 0
                  ELSE /\ pc'[t] = "done" /\ finv'[t] = 0
                       /\ ret'[t] = Ref(Load(cell[t]))
                       /\ ptr' = ptr
            /\ pc[t] = "goi_store" /\ pc'[t] # "goi_store" =>
                  /\ pc'[t] = "done" /\ finv'[t] = 1
                  /\ ret'[t] = Ref(r[t])
                  /\ (Get(cell[t]))' = Some(r[t])]_vars

\* One call has initialized the cell with its own v, another has returned
\* that v without running its initializer.
C3_Witness ==
    \E t, u \in Tids :
        /\ t # u /\ cell[t] = cell[u]
        /\ pc[t] = "done" /\ op[t] = "get_or_init" /\ finv[t] = 1
        /\ pc[u] = "done" /\ op[u] = "get_or_init" /\ finv[u] = 0
        /\ ret[t] = Ref(r[t]) /\ ret[u] = ret[t]
        /\ Get(cell[t]) = Some(r[t])

\* C4 as stated: once set(v) has returned, get() gives Some(v) as long as no
\* other set or set_owned has been executed on the cell since.
C4_Original ==
    \A t \in Tids :
        pc[t] = "done" /\ op[t] = "set" /\ since[t] # 2 =>
            Get(cell[t]) = Some(r[t])

\* C4, amended: once set(v) has returned, get() gives Some(v) as long as no
\* other store has been executed on the cell since: neither a set or
\* set_owned nor the store of a get_or_init.
C4_Amended ==
    \A t \in Tids :
        pc[t] = "done" /\ op[t] = "set" /\ since[t] = 0 =>
            /\ Get(cell[t]) = Some(r[t])
            /\ \A u \in Tids :
                  pc[u] = "done" /\ op[u] = "get" /\ since[u] = 0 =>
                      ret[u] = Some(r[t])

\* A set(v) on a cell that held another reference, and a later get() that
\* returned Some(v).
C4_Witness ==
    \E t, u \in Tids :
        /\ pc[t] = "done" /\ op[t] = "set" /\ since[t] = 0
        /\ pc[u] = "done" /\ op[u] = "get" /\ since[u] = 0
        /\ ret[u] = Some(r[t])
        /\ Cardinality(written[cell[t]]) >= 2

\* No set or get_or_init is in progress on cell c.
Quiescent(c) ==
    ~ \E t \in Tids :
          cell[t] = c /\ pc[t] \in {"set", "goi_load", "goi_init", "goi_store"}

\* C5: once a write has happened and no set or get_or_init is in progress,
\* get() returns the reference of the store executed last on the slot, and
\* every get() made since that store has returned it.
C5_LastStoreWins ==
    \A c \in Cells :
        Quiescent(c) /\ lastStore[c] # Null =>
            /\ Get(c) = Some(lastStore[c])
            /\ \A t \in Tids :
                  pc[t] = "done" /\ op[t] = "get" /\ cell[t] = c /\ since[t] = 0 =>
                      ret[t] = Some(lastStore[c])

\* Two stores have landed on the cell, the last by a get_or_init, and a get()
\* made after it has returned its reference.
C5_Witness ==
    \E t, u \in Tids :
        /\ t # u /\ cell[t] = cell[u] /\ Quiescent(cell[t])
        /\ pc[t] = "done" /\ op[t] = "get" /\ since[t] = 0
        /\ pc[u] = "done" /\ op[u] = "get_or_init" /\ finv[u] = 1
        /\ ret[t] = Some(r[u]) /\ lastStore[cell[t]] = r[u]
        /\ Cardinality(written[cell[t]]) >= 2

\* C6: a get_or_init whose load found the slot empty can always run its
\* initializer and can always perform its store, which writes its own
\* result whatever the slot holds by then: no compare-and-swap, no lock.
C6_NoCas ==
    \A t \in Tids :
        /\ pc[t] = "goi_init" => \A v \in Refs : ENABLED GoiInit(t, v)
        /\ pc[t] = "goi_store" =>
              ENABLED (GoiStore(t) /\ ptr'[cell[t]] = FromRef(r[t]))

\* Two calls have run their initializers for one cell; one has stored, the
\* other is about to store over the non-empty slot.
C6_Witness ==
    \E t, u \in Tids :
        /\ t # u /\ cell[t] = cell[u]
        /\ pc[t] = "goi_store" /\ finv[t] = 1
        /\ pc[u] = "done" /\ op[u] = "get_or_init" /\ finv[u] = 1
        /\ ptr[cell[t]] # Null

\* C7: the cell new() or Default::default() returns gives get() == None,
\* and the cell new_initialized(v) returns gives get() == Some(v).
C7_Constructors ==
    [][\A t \in Tids : \A c \in Cells :
          status[c] = "unborn" /\ status'[c] = "live" /\ ret'[t] = CellVal(c) =>
              /\ op'[t] \in {"new", "default"} => (Get(c))' = None
              /\ op'[t] = "new_initialized" => (Get(c))' = Some(r'[t])
              /\ op'[t] \in {"new", "default", "new_initialized", "clone"}]_vars

\* A cell fresh from new_initialized(v) and a cell fresh from new() or
\* default(), holding what they were built with.
C7_Witness ==
    \E t, u \in Tids :
        /\ pc[t] = "done" /\ op[t] = "new_initialized"
        /\ Get(cell[t]) = Some(r[t]) /\ r[t] \in Refs
        /\ pc[u] = "done" /\ op[u] \in {"new", "default"}
        /\ Get(cell[u]) = None

\* The reads whose result can be compared: returned, with no write to the
\* cell executed since.
FreshRead(t, o) == pc[t] = "done" /\ op[t] = o /\ since[t] = 0

\* C8: the load of get() and of is_initialized() leaves the slot as it is,
\* and all get() calls, and all is_initialized() calls, made with no write
\* to the cell in between return the same result.
C8_PureReads ==
    /\ [](\A t, u \in Tids : \A o \in {"get", "is_initialized"} :
            FreshRead(t, o) /\ FreshRead(u, o) /\ cell[t] = cell[u] =>
                ret[t] = ret[u])
    /\ [][\A t \in Tids :
            pc[t] \in {"get", "is_init"} /\ pc'[t] # pc[t] =>
                /\ ptr' = ptr /\ status' = status
                /\ lastStore' = lastStore /\ written' = written]_vars

\* Two get() calls in a row on an initialized cell, both returning its reference.
C8_Witness ==
    \E t, u \in Tids :
        /\ t # u /\ cell[t] = cell[u]
        /\ FreshRead(t, "get") /\ FreshRead(u, "get")
        /\ ret[t] # None /\ ret[t] = ret[u]

\* C9: is_initialized() is true exactly when the slot is non-empty at its
\* load, so it agrees with whether get() is Some; and once a get_or_init on
\* the cell has returned, is_initialized() is true.
C9_IsInitialized ==
    /\ \A c \in Cells : Live(c) => (IsInitialized(c) <=> Get(c) # None)
    /\ \A t \in Tids :
          FreshRead(t, "is_initialized") =>
              /\ ret[t] = Bool(ptr[cell[t]] # Null)
              /\ \A u \in Tids :
                    FreshRead(u, "get") /\ cell[u] = cell[t] =>
                        ret[t] = Bool(ret[u] # None)
    /\ \A t \in Tids :
          pc[t] = "done" /\ op[t] = "get_or_init" =>
              /\ IsInitialized(cell[t])
              /\ \A u \in Tids :
                    FreshRead(u, "is_initialized") /\ cell[u] = cell[t] =>
                        ret[u] = Bool(TRUE)

\* A get_or_init has initialized the cell, and an is_initialized() made
\* after it has returned true.
C9_Witness ==
    \E t, u \in Tids :
        /\ pc[t] = "done" /\ op[t] = "get_or_init" /\ finv[t] = 1
        /\ FreshRead(u, "is_initialized") /\ cell[u] = cell[t]
        /\ ret[u] = Bool(TRUE)

\* The number of steps a call at p still has to take.
Rank(p) ==
    IF p \in {"idle", "done", "unwound"} THEN 0
    ELSE IF p \in {"get", "is_init", "set", "goi_store", "clone_make", "eq_other"}
         THEN 1
    ELSE IF p \in {"goi_init", "clone", "eq_self"} THEN 2
    ELSE 3

\* C10: a thread inside a call can always take its next step, whatever the
\* other threads are doing, and each of its steps brings the call nearer to
\* its return: no call takes more than three steps, none retries, none waits.
C10_LockFree ==
    /\ [](\A t \in Tids : ~AtRest(t) => ENABLED Step(t))
    /\ [][\A t \in Tids :
            /\ pc'[t] # pc[t] /\ ~AtRest(t) => Rank(pc'[t]) < Rank(pc[t])
            /\ pc'[t] # pc[t] /\ AtRest(t) => Rank(pc'[t]) <= 3]_vars

\* Two calls are in progress on one cell: a get_or_init about to store, and
\* a set that has not stored yet.
C10_Witness ==
    \E t, u \in Tids :
        /\ t # u /\ cell[t] = cell[u]
        /\ pc[t] = "goi_store" /\ pc[u] = "set"

\* C11: the cell clone() returns gives the get() that the clone's own get()
\* on the original returned; the step leaves the original as it is, and a
\* step that writes one cell changes the slot of no other cell.
C11_Clone ==
    [][/\ \A t \in Tids :
            pc[t] = "clone_make" /\ pc'[t] = "done" =>
                /\ \E d \in Cells :
                      /\ status[d] = "unborn" /\ status'[d] = "live"
                      /\ ret'[t] = CellVal(d)
                      /\ (Get(d))' = loaded[t]
                /\ (Get(cell[t]))' = Get(cell[t])
       /\ \A c, d \in Cells :
            c # d /\ ptr'[c] # ptr[c] => ptr'[d] = ptr[d]
       /\ \A d \in Cells :
            Live(d) /\ ptr'[d] # ptr[d] =>
                \E t \in Tids :
                    /\ cell'[t] = d /\ pc'[t] = "done"
                    /\ pc[t] # "done" \/ op'[t] = "set_owned"
                    /\ op'[t] \in {"set", "set_owned", "get_or_init"}]_vars

\* A clone of an initialized cell has been given another reference by set,
\* and the original still holds its own.
C11_Witness ==
    \E t, u \in Tids : \E d \in Cells :
        /\ pc[t] = "done" /\ op[t] = "clone" /\ ret[t] = CellVal(d)
        /\ pc[u] = "done" /\ op[u] = "set" /\ cell[u] = d
        /\ ptr[cell[t]] # Null /\ ptr[d] # Null /\ ptr[d] # ptr[cell[t]]
        /\ written[cell[t]] = {ptr[cell[t]]}

\* C12: a == b is true exactly when the two values it read are both None, or
\* both Some with pointees equal by value; None against Some is false, and
\* two distinct addresses with equal pointees are equal. While no store is
\* made to either cell the values read are what the slots hold.
C12_Eq ==
    /\ [][\A t \in Tids :
            pc[t] = "eq_other" /\ pc'[t] = "done" =>
                LET x == loaded[t]
                    y == AsRef(ptr[other[t]])
                IN  ret'[t] = Bool(\/ x = None /\ y = None
                                   \/ /\ x # None /\ y # None
                                      /\ Deref(x[2]) = Deref(y[2]))]_vars
    /\ [](\A t \in Tids :
            /\ pc[t] = "done" /\ op[t] = "eq"
            /\ lastStore[cell[t]] = Null /\ lastStore[other[t]] = Null
            => LET p == ptr[cell[t]]
                   q == ptr[other[t]]
               IN  ret[t] = Bool(\/ p = Null /\ q = Null
                                 \/ /\ p # Null /\ q # Null
                                    /\ Deref(p) = Deref(q)))

\* a == b has returned true for two cells holding distinct addresses, no
\* store having been made to either.
C12_Witness ==
    \E t \in Tids :
        /\ pc[t] = "done" /\ op[t] = "eq" /\ ret[t] = Bool(TRUE)
        /\ cell[t] # other[t]
        /\ lastStore[cell[t]] = Null /\ lastStore[other[t]] = Null
        /\ ptr[cell[t]] # Null /\ ptr[other[t]] # Null
        /\ ptr[cell[t]] # ptr[other[t]]

C14_PanicNoStore ==
    /\ [][\A t \in Tids :
            pc[t] = "goi_init" /\ pc'[t] = "unwound" =>
                /\ ptr' = ptr
                /\ status' = status
                /\ lastStore' = lastStore
                /\ written' = written]_vars
    /\ [](\A t \in Tids :
            pc[t] = "unwound" =>
                /\ op[t] = "get_or_init"
                /\ ret[t] = Panicked
                /\ finv[t] = 1
                /\ written[cell[t]] = {} => ptr[cell[t]] = Null)

\* An initializer has panicked, and the cell holds the one reference ever
\* stored into it: that of another thread's set, made after the load of the
\* call that unwound.
C14_Witness ==
    \E t, u \in Tids :
        /\ pc[t] = "unwound" /\ finv[t] = 1
        /\ pc[u] = "done" /\ op[u] = "set" /\ cell[u] = cell[t]
        /\ ptr[cell[t]] = FromRef(r[u])
        /\ written[cell[t]] = {FromRef(r[u])}

\* C17: no step writes the null pointer into a slot: a slot that is
\* non-empty stays non-empty, a cell that has ever held a reference holds
\* one, and a get() or is_initialized() that loads from such a cell returns
\* Some or true.
C17_StaysInitialized ==
    /\ [][/\ \A c \in Cells : ptr[c] # Null => ptr'[c] # Null
          /\ \A t \in Tids :
                pc'[t] = "done" /\ pc[t] \in {"get", "is_init"}
                /\ written[cell[t]] # {}
                => ret'[t] \notin {None, Bool(FALSE)}]_vars
    /\ [](\A c \in Cells : written[c] # {} => ptr[c] # Null)
    /\ [](\A t, u \in Tids :
            /\ pc[t] = "done" /\ op[t] \in {"get", "is_initialized"}
            /\ ret[t] \notin {None, Bool(FALSE)}
            /\ pc[u] \in {"get", "is_init"} /\ cell[u] = cell[t]
            => ptr[cell[u]] # Null)

\* A cell has held two references, one after the other, and an
\* is_initialized() after the last store returned true.
C17_Witness ==
    \E t \in Tids : \E c \in Cells :
        /\ Cardinality(written[c]) = 2 /\ lastStore[c] # Null
        /\ pc[t] = "done" /\ op[t] = "is_initialized" /\ cell[t] = c
        /\ ret[t] = Bool(TRUE) /\ since[t] = 0

\* C18: c == c returns true in every execution, whatever other threads
\* store into c between the two loads of the comparison.
C18_Reflexive ==
    \A t \in Tids :
        pc[t] = "done" /\ op[t] = "eq" /\ cell[t] = other[t] =>
            ret[t] = Bool(TRUE)

\* C19 as stated, its last part: when the get_or_init calls on a cell built
\* empty do not overlap and no set occurs, the initializer is invoked
\* exactly once.
C19_Original ==
    OnlyGoi(Shared) => Invocations(Shared) = 1

\* C19, amended: a get_or_init call loads the slot once and does not write on
\* that step; it goes on to its initializer exactly when the load found the
\* slot empty; the initializer runs at most once per call, and only after
\* such a load; the call stores exactly on the step after its initializer
\* returned, writes that result and returns it whatever the slot held; a
\* returned call that ran its initializer returned its own result, which it
\* stored, even if the slot now holds another reference. When the calls do
\* not overlap and no set occurs, the initializer runs once more than the
\* number of initializers that panicked: exactly once if none panicked.
C19_Amended ==
    /\ [][\A t \in Tids :
            /\ pc[t] = "goi_load" /\ pc'[t] # "goi_load" =>
                  /\ pc'[t] = "goi_init" <=> ptr[cell[t]] = Null
                  /\ pc'[t] \in {"goi_init", "done"}
                  /\ ptr' = ptr /\ finv'[t] = 0
            /\ pc'[t] = "goi_load" /\ pc[t] # "goi_load" => AtRest(t)
            /\ finv'[t] # finv[t] =>
                  \/ AtRest(t) /\ finv'[t] = 0
                  \/ /\ pc[t] = "goi_init" /\ loaded[t] = None
                     /\ finv[t] = 0 /\ finv'[t] = 1
            /\ pc[t] = "goi_init" /\ pc'[t] # "goi_init" =>
                  /\ ptr' = ptr /\ finv'[t] = 1
                  /\ pc'[t] \in {"goi_store", "unwound"}
            /\ pc[t] = "goi_store" /\ pc'[t] # "goi_store" =>
                  /\ pc'[t] = "done" /\ finv'[t] = 1
                  /\ ptr' = Store(cell[t], FromRef(r[t]))
                  /\ ret'[t] = Ref(r[t])]_vars
    /\ [](\A t \in Tids :
            /\ finv[t] <= 1
            /\ pc[t] = "done" /\ op[t] = "get_or_init" /\ finv[t] = 1 =>
                  ret[t] = Ref(r[t]) /\ FromRef(r[t]) \in written[cell[t]]
            /\ pc[t] = "done" /\ op[t] = "get_or_init" /\ finv[t] = 0 =>
                  FromRef(ret[t][2]) \in written[cell[t]])
    /\ [](OnlyGoi(Shared) => Invocations(Shared) = 1 + Panics(Shared))

\* With no set and no overlap: one call's initializer panicked, the next
\* call ran its initializer, stored and returned its result, and a third
\* call returned that reference without running its initializer.
C19_Witness ==
    \E t, u, w \in Tids :
        /\ OnlyGoi(Shared)
        /\ pc[t] = "unwound" /\ finv[t] = 1
        /\ pc[u] = "done" /\ op[u] = "get_or_init" /\ finv[u] = 1
        /\ pc[w] = "done" /\ op[w] = "get_or_init" /\ finv[w] = 0
        /\ ret[u] = Ref(r[u]) /\ ret[w] = ret[u]
        /\ ptr[Shared] = FromRef(r[u])
        /\ Invocations(Shared) = 2

=============================================================================
